---- MODULE Spec2Model ----
(***************************************************************************)
(* fileproxy: a caching HTTP file proxy.                                   *)
(*                                                                         *)
(* The model follows the Go source: the Cache (completed LRU, negative     *)
(* LRU, pending map, totalSize), the StreamingFile and its readers, and    *)
(* the Proxy request path (handleRequest, fetchAndServe, doFetchAndServe,  *)
(* serveFromStreaming, serveFromCache, serveFromCacheOrError).             *)
(*                                                                         *)
(* Every request is a process with a program counter.  One action is one   *)
(* access to shared state (one lock region, one LRU call, one file system  *)
(* call); statements that touch only the request's own variables (the      *)
(* upstream body read, the write to the client, setting headers) are       *)
(* folded into the shared access that follows or precedes them.            *)
(*                                                                         *)
(* The file system is modelled with inodes: a path is linked to an inode   *)
(* or to nothing, an open handle keeps its inode after an unlink, and      *)
(* os.Create on a linked path truncates the inode in place.                *)
(***************************************************************************)
EXTENDS Integers, Sequences, FiniteSets, TLC

\* ------------------------------------------------------------------ bounds
NReq == 2
NKeys == 2
MaxBody == 2
MaxCacheSize == 2
\* the index read at startup holds at most MaxLoaded entries, of LoadedSize bytes
MaxLoaded == 1
LoadedSize == 1
\* the TTL of a completed entry and the last instant of the clock, in ticks
Ttl == 2
MaxTime == 4
\* the completed store holds at most MaxStored entries when the index is saved
MaxStored == 2
\* a Range header names numbers up to MaxNum, for an entry of at most MaxSize bytes
MaxNum == 10
MaxSize == 3

Req == 1..NReq
Keys == 1..NKeys
Methods == {"GET", "HEAD"}

\* The upstream sends every key with one Content-Type header: none for the
\* odd keys, text/plain for the even ones.
UpstreamContentType(k) == IF k % 2 = 1 THEN "" ELSE "text/plain"

\* doFetchAndServe: an empty Content-Type becomes application/octet-stream.
ContentTypeOf(k) ==
    IF UpstreamContentType(k) = "" THEN "application/octet-stream"
    ELSE UpstreamContentType(k)

None == 0

\* Inodes are named by the request whose os.Create made them; the file of a
\* key loaded from the index has the inode NReq + key.  A byte is named by
\* the inode it was first written to by its writer (0 is a hole).
Inodes == 1..(NReq + NKeys)
LoadedInode(k) == NReq + k

VARIABLES
    fileCache,   \* Cache.fileCache: sequence of entries, most recently used first
    notFound,    \* Cache.notFoundCache: set of keys
    totalSize,   \* Cache.totalSize
    pending,     \* Cache.pending: key -> StreamingFile (named by its creator) or None
    sfs,         \* the StreamingFile objects, named by the request that created them
    path,        \* file system: cache path of a key -> inode or None
    inode,       \* file system: inode -> contents (sequence of bytes)
    fetchLocks,  \* Proxy.fetchLocks: key -> fetchLock (named by its creator) or None
    locks,       \* the fetchLock objects
    req,         \* the requests: program counter and local variables
    upGets,      \* history: number of upstream GETs issued per key
    nfLive,      \* history: per key, put in the negative cache and not expired since
    now,         \* the clock (time.Now), in ticks
    deadline,    \* fileCache: key -> ExpiresAt of its entry
    phase,       \* the process: "running", "saving", "down", "loaded", "closed"
    disk,        \* the cache directory by file name: name -> size of the file
    index,       \* the contents of index.json (a sequence of entries)
    saved,       \* history: the completed entries when index.json was written
    call         \* one call of serveRangeFromFile: its arguments and its response

\* The request path is modelled without a clock: there the TTL of an entry
\* may run out at any moment, and these variables stay as they are.
clockVars == <<now, deadline>>

\* Shutdown and startup are modelled apart from the request path, with the
\* cache directory by file name.
startVars == <<phase, disk, index, saved>>

offPath == <<clockVars, startVars, call>>

vars == <<fileCache, notFound, totalSize, pending, sfs, path, inode,
          fetchLocks, locks, req, upGets, nfLive, clockVars, startVars, call>>

\* ------------------------------------------------------------ expirable LRU
NoEntry == [key |-> None, size |-> 0, ct |-> ""]

LruIndex(c, k) ==
    IF \E i \in 1..Len(c) : c[i].key = k
    THEN CHOOSE i \in 1..Len(c) : c[i].key = k
    ELSE 0

LruHas(c, k) == LruIndex(c, k) # 0

LruPeek(c, k) == IF LruHas(c, k) THEN c[LruIndex(c, k)] ELSE NoEntry

LruWithout(c, k) == SelectSeq(c, LAMBDA e : e.key # k)

\* Add: an existing key gets the new value and moves to the front, and the
\* eviction callback does not run; a new key is pushed at the front.
LruAdd(c, e) == <<e>> \o LruWithout(c, e.key)

\* Get moves the entry to the front.
LruTouch(c, k) == IF LruHas(c, k) THEN <<LruPeek(c, k)>> \o LruWithout(c, k) ELSE c

LruOldest(c) == c[Len(c)]

LruKeys(c) == {c[i].key : i \in 1..Len(c)}

RECURSIVE SumSizes(_)
SumSizes(c) == IF c = <<>> THEN 0 ELSE Head(c).size + SumSizes(Tail(c))

\* ------------------------------------------------------------- file system
\* A write of one byte b through a handle at offset off (0-based).
Pad(d, n) == d \o [i \in 1..(n - Len(d)) |-> 0]

WriteAt(d, off, b) ==
    LET p == IF Len(d) < off THEN Pad(d, off) ELSE d
    IN  [i \in 1..(IF Len(p) > off THEN Len(p) ELSE off + 1) |->
            IF i = off + 1 THEN b ELSE p[i]]

\* ReadAt of n bytes at offset off: the bytes the file has there.
ReadAt(d, off, n) ==
    LET hi == IF off + n <= Len(d) THEN off + n ELSE Len(d)
    IN  IF hi <= off THEN <<>> ELSE SubSeq(d, off + 1, hi)

\* ------------------------------------------------------------------- state
\* No Range request is being served.
NoCall == [pc |-> "none"]

NewSF == [key |-> None, ino |-> None, size |-> 0, done |-> FALSE, err |-> FALSE]

NewLock == [done |-> FALSE, err |-> FALSE]

NewReq == [pc |-> "idle", key |-> None, method |-> "GET", ctx |-> "handle",
           lock |-> None, sf |-> None, isNew |-> FALSE, opsf |-> None,
           total |-> 0, ct |-> "", finErr |-> FALSE,
           entry |-> NoEntry, rino |-> None, off |-> 0, got |-> <<>>,
           resp |-> "", xcache |-> "",
           \* history: this request created the pending entry; one of its
           \* sf.Write calls failed; why its download ended
           created |-> FALSE, cacheFail |-> FALSE, cause |-> ""]

\* NewCache: empty LRUs, empty pending map, then loadAndCleanup installs the
\* index entries whose file is there with the recorded size (n of them here),
\* adding each at the front of the LRU and its size to totalSize.
LoadedEntry(k) == [key |-> k, size |-> LoadedSize, ct |-> ContentTypeOf(k)]

Init ==
    \E n \in 0..MaxLoaded :
       /\ n <= NKeys
       /\ fileCache = [i \in 1..n |-> LoadedEntry(n + 1 - i)]
       /\ notFound = {}
       /\ totalSize = n * LoadedSize
       /\ pending = [k \in Keys |-> None]
       /\ sfs = [r \in Req |-> NewSF]
       /\ path = [k \in Keys |-> IF k <= n THEN LoadedInode(k) ELSE None]
       /\ inode = [i \in Inodes |->
                     IF i > NReq /\ i - NReq <= n
                     THEN [j \in 1..LoadedSize |-> i] ELSE <<>>]
       /\ fetchLocks = [k \in Keys |-> None]
       /\ locks = [r \in Req |-> NewLock]
       /\ req = [r \in Req |-> NewReq]
       /\ upGets = [k \in Keys |-> 0]
       /\ nfLive = [k \in Keys |-> FALSE]
       /\ now = 0
       /\ deadline = [k \in Keys |-> IF k <= n THEN Ttl ELSE 0]
       /\ phase = "running"
       /\ disk = <<>>
       /\ index = <<>>
       /\ saved = <<>>
       /\ call = NoCall

\* The eviction callback of fileCache (run by Remove, RemoveOldest and expiry):
\* unlink the entry's path and subtract its size.
EvictCallback(e) ==
    /\ path' = [path EXCEPT ![e.key] = None]
    /\ totalSize' = totalSize - e.size

Set(r, rec) == req' = [req EXCEPT ![r] = rec]

\* A fetchLock that neither the fetchLocks map nor a request refers to is
\* garbage; the model keeps collected locks in their initial state.
Collect(ls, fl, rq) ==
    [l \in Req |-> IF (\E k \in Keys : fl[k] = l) \/ (\E q \in Req : rq[q].lock = l)
                   THEN ls[l] ELSE NewLock]

\* The handler returns: its local variables die; what the client saw stays.
Return(rec, status) ==
    [NewReq EXCEPT !.pc = "done", !.resp = status, !.key = rec.key,
                   !.method = rec.method, !.xcache = rec.xcache, !.sf = rec.sf,
                   !.got = rec.got]

Finished(r, status) == Return(req[r], status)

\* ------------------------------------------------------------ handleRequest
\* A key was loaded from the index or has been requested.
KeyUsed(k) == inode[LoadedInode(k)] # <<>> \/ \E q \in Req : req[q].key = k

\* A request arrives: ServeHTTP with key = URL path and method GET or HEAD.
\* Requests are named in the order of their arrival, and the keys that were
\* not loaded from the index in the order of their first request.
ServeHTTP(r) ==
    /\ req[r].pc = "idle"
    /\ \A q \in 1..(r - 1) : req[q].pc # "idle"
    /\ \E k \in Keys, m \in Methods :
          /\ k = 1 \/ KeyUsed(k) \/ KeyUsed(k - 1)
          /\ Set(r, [req[r] EXCEPT !.pc = "isnf", !.key = k, !.method = m])
    /\ UNCHANGED <<fileCache, notFound, totalSize, pending, sfs, path, inode,
                   fetchLocks, locks, upGets, nfLive>>
    /\ UNCHANGED offPath

\* Cache.IsNotFound, first half: notFoundCache.Get.  Called by handleRequest
\* (ctx "handle") and by serveFromCacheOrError (ctx "after").
IsNotFound(r) ==
    /\ req[r].pc = "isnf"
    /\ Set(r, [req[r] EXCEPT !.pc = IF req[r].key \in notFound
                                    THEN "isnf_add" ELSE "get_nf"])
    /\ UNCHANGED <<fileCache, notFound, totalSize, pending, sfs, path, inode,
                   fetchLocks, locks, upGets, nfLive>>
    /\ UNCHANGED offPath

\* Cache.IsNotFound, second half: notFoundCache.Add refreshes the TTL; the
\* caller answers 404.
IsNotFoundRefresh(r) ==
    /\ req[r].pc = "isnf_add"
    /\ notFound' = notFound \cup {req[r].key}
    /\ nfLive' = [nfLive EXCEPT ![req[r].key] = TRUE]
    /\ Set(r, Finished(r, "404"))
    /\ UNCHANGED <<fileCache, totalSize, pending, sfs, path, inode,
                   fetchLocks, locks, upGets>>
    /\ UNCHANGED offPath

\* Where a caller of Cache.Get goes on a miss: handleRequest falls through to
\* fetchAndServe, serveFromCacheOrError to Remove.
AfterMiss(r) == IF req[r].ctx = "handle" THEN "load_lock" ELSE "remove"

\* Cache.Get, notFoundCache.Get: a negatively cached key is reported as a miss.
GetNotFound(r) ==
    /\ req[r].pc = "get_nf"
    /\ Set(r, [req[r] EXCEPT !.pc = IF req[r].key \in notFound
                                    THEN "get_nf_add" ELSE "get_file"])
    /\ UNCHANGED <<fileCache, notFound, totalSize, pending, sfs, path, inode,
                   fetchLocks, locks, upGets, nfLive>>
    /\ UNCHANGED offPath

GetNotFoundRefresh(r) ==
    /\ req[r].pc = "get_nf_add"
    /\ notFound' = notFound \cup {req[r].key}
    /\ nfLive' = [nfLive EXCEPT ![req[r].key] = TRUE]
    /\ Set(r, [req[r] EXCEPT !.pc = AfterMiss(r), !.entry = NoEntry])
    /\ UNCHANGED <<fileCache, totalSize, pending, sfs, path, inode,
                   fetchLocks, locks, upGets>>
    /\ UNCHANGED offPath

\* Cache.Get, fileCache.Get: returns the entry and moves it to the front.
GetFile(r) ==
    /\ req[r].pc = "get_file"
    /\ IF LruHas(fileCache, req[r].key)
       THEN /\ fileCache' = LruTouch(fileCache, req[r].key)
            /\ Set(r, [req[r] EXCEPT !.pc = "get_file_add",
                                     !.entry = LruPeek(fileCache, req[r].key)])
       ELSE /\ fileCache' = fileCache
            /\ Set(r, [req[r] EXCEPT !.pc = AfterMiss(r), !.entry = NoEntry])
    /\ UNCHANGED <<notFound, totalSize, pending, sfs, path, inode,
                   fetchLocks, locks, upGets, nfLive>>
    /\ UNCHANGED offPath

\* Cache.Get, fileCache.Add(key, entry): refreshes the TTL.  The entry is put
\* back even when it was evicted since the Get; totalSize is not touched.
GetFileRefresh(r) ==
    /\ req[r].pc = "get_file_add"
    /\ fileCache' = LruAdd(fileCache, req[r].entry)
    /\ Set(r, [req[r] EXCEPT !.pc = "validate"])
    /\ UNCHANGED <<notFound, totalSize, pending, sfs, path, inode,
                   fetchLocks, locks, upGets, nfLive>>
    /\ UNCHANGED offPath

\* Proxy.validateCacheFile: os.Stat of the entry's path.
FileValid(e) == path[e.key] # None /\ Len(inode[path[e.key]]) = e.size

\* A variant of ValidateCacheFile that checks only that the file is there.
ValidateCacheFileExists(r) ==
    /\ req[r].pc = "validate"
    /\ Set(r, [req[r] EXCEPT !.pc = IF path[req[r].key] # None
                                    THEN "open_cache" ELSE "remove"])
    /\ UNCHANGED <<fileCache, notFound, totalSize, pending, sfs, path, inode,
                   fetchLocks, locks, upGets, nfLive>>
    /\ UNCHANGED offPath

ValidateCacheFile(r) ==
    /\ req[r].pc = "validate"
    /\ Set(r, [req[r] EXCEPT !.pc = IF FileValid(req[r].entry)
                                    THEN "open_cache" ELSE "remove"])
    /\ UNCHANGED <<fileCache, notFound, totalSize, pending, sfs, path, inode,
                   fetchLocks, locks, upGets, nfLive>>
    /\ UNCHANGED offPath

\* Cache.Remove, fileCache.Remove: runs the eviction callback when present.
RemoveFile(r) ==
    /\ req[r].pc = "remove"
    /\ IF LruHas(fileCache, req[r].key)
       THEN /\ fileCache' = LruWithout(fileCache, req[r].key)
            /\ EvictCallback(LruPeek(fileCache, req[r].key))
       ELSE UNCHANGED <<fileCache, path, totalSize>>
    /\ Set(r, [req[r] EXCEPT !.pc = "remove_nf"])
    /\ UNCHANGED <<notFound, pending, sfs, inode, fetchLocks, locks, upGets, nfLive>>
    /\ UNCHANGED offPath

\* Cache.Remove, notFoundCache.Remove.  handleRequest goes on to fetchAndServe,
\* serveFromCacheOrError answers 500.
RemoveNotFound(r) ==
    /\ req[r].pc = "remove_nf"
    /\ notFound' = notFound \ {req[r].key}
    /\ Set(r, IF req[r].ctx = "handle"
              THEN [req[r] EXCEPT !.pc = "load_lock"]
              ELSE Finished(r, "500"))
    /\ UNCHANGED <<fileCache, totalSize, pending, sfs, path, inode,
                   fetchLocks, locks, upGets, nfLive>>
    /\ UNCHANGED offPath

\* Proxy.serveFromCache: os.Open of the entry's path, then the headers.
ServeFromCacheOpen(r) ==
    /\ req[r].pc = "open_cache"
    /\ Set(r, IF path[req[r].key] = None
              THEN Finished(r, "error")
              ELSE [req[r] EXCEPT !.pc = "copy_cache", !.xcache = "HIT",
                                  !.rino = path[req[r].key]])
    /\ UNCHANGED <<fileCache, notFound, totalSize, pending, sfs, path, inode,
                   fetchLocks, locks, upGets, nfLive>>
    /\ UNCHANGED offPath

\* Proxy.serveFromCache: HEAD stops after the headers, GET copies the file.
ServeFromCacheCopy(r) ==
    /\ req[r].pc = "copy_cache"
    /\ Set(r, Return([req[r] EXCEPT
                 !.got = IF req[r].method = "HEAD" THEN <<>> ELSE inode[req[r].rino]],
                 "200"))
    /\ UNCHANGED <<fileCache, notFound, totalSize, pending, sfs, path, inode,
                   fetchLocks, locks, upGets, nfLive>>
    /\ UNCHANGED offPath

\* ------------------------------------------------------------ fetchAndServe
\* fetchLocks.LoadOrStore(key, newFetchLock()).
LoadOrStoreLock(r) ==
    /\ req[r].pc = "load_lock"
    /\ IF fetchLocks[req[r].key] # None
       THEN /\ Set(r, [req[r] EXCEPT !.pc = "check_lock",
                                     !.lock = fetchLocks[req[r].key]])
            /\ UNCHANGED <<fetchLocks, locks>>
       ELSE /\ fetchLocks' = [fetchLocks EXCEPT ![req[r].key] = r]
            /\ locks' = [locks EXCEPT ![r] = NewLock]
            /\ Set(r, [req[r] EXCEPT !.pc = "check_lock", !.lock = r])
    /\ UNCHANGED <<fileCache, notFound, totalSize, pending, sfs, path, inode,
                   upGets, nfLive>>
    /\ UNCHANGED offPath

\* The region under lock.mu: a finished lock with an error answers 404, a
\* finished lock without error serves from the cache; otherwise GetPending
\* decides between tailing the StreamingFile and fetching.
CheckLock(r) ==
    /\ req[r].pc = "check_lock"
    /\ LET me == [req[r] EXCEPT !.lock = None]
           l == locks[req[r].lock]
       IN  Set(r, IF l.done
                  THEN IF l.err THEN Return(me, "404")
                       ELSE [me EXCEPT !.pc = "isnf", !.ctx = "after"]
                  ELSE IF pending[me.key] # None
                       THEN IF me.method = "HEAD"
                            THEN Return([me EXCEPT !.xcache = "STREAMING",
                                                   !.sf = pending[me.key]], "200")
                            ELSE [me EXCEPT !.pc = "open_reader",
                                    !.xcache = "STREAMING", !.sf = pending[me.key]]
                       ELSE [req[r] EXCEPT !.pc = "send"])
    /\ locks' = Collect(locks, fetchLocks, req')
    /\ UNCHANGED <<fileCache, notFound, totalSize, pending, sfs, path, inode,
                   fetchLocks, upGets, nfLive>>
    /\ UNCHANGED offPath

\* ------------------------------------------------------- serveFromStreaming
\* StreamingFileReader.Read, first call: os.Open(sf.filePath).
ReaderOpen(r) ==
    /\ req[r].pc = "open_reader"
    /\ Set(r, IF path[req[r].key] = None
              THEN Finished(r, "read error")
              ELSE [req[r] EXCEPT !.pc = "read", !.rino = path[req[r].key]])
    /\ UNCHANGED <<fileCache, notFound, totalSize, pending, sfs, path, inode,
                   fetchLocks, locks, upGets, nfLive>>
    /\ UNCHANGED offPath

\* StreamingFileReader.Read and the loop of serveFromStreaming around it.
\* With sf.err set the read fails; with bytes available it reads them with
\* ReadAt (a short read comes back with io.EOF, which ends the loop as a
\* normal end of stream); at the end of a done file it returns io.EOF;
\* otherwise it waits on the condition variable.
ReaderRead(r) ==
    /\ req[r].pc = "read"
    /\ LET me == req[r]
           s == sfs[me.sf]
           avail == s.size - me.off
           bytes == ReadAt(inode[me.rino], me.off, avail)
       IN  \/ /\ s.err
              /\ Set(r, Finished(r, "read error"))
           \/ /\ ~s.err /\ avail > 0
              /\ \E clientOk \in BOOLEAN :
                    Set(r, IF ~clientOk /\ Len(bytes) > 0
                           THEN Finished(r, "client error")
                           ELSE IF Len(bytes) < avail
                           THEN Return([me EXCEPT !.got = @ \o bytes], "200")
                           ELSE [me EXCEPT !.got = @ \o bytes, !.off = @ + Len(bytes)])
           \/ /\ ~s.err /\ avail <= 0 /\ s.done
              /\ Set(r, Finished(r, "200"))
    /\ UNCHANGED <<fileCache, notFound, totalSize, pending, sfs, path, inode,
                   fetchLocks, locks, upGets, nfLive>>
    /\ UNCHANGED offPath

\* ---------------------------------------------------------- doFetchAndServe
\* httpClient.Do: the upstream GET goes out.
SendUpstream(r) ==
    /\ req[r].pc = "send"
    /\ upGets' = [upGets EXCEPT ![req[r].key] = @ + 1]
    /\ Set(r, [req[r] EXCEPT !.pc = "response"])
    /\ UNCHANGED <<fileCache, notFound, totalSize, pending, sfs, path, inode,
                   fetchLocks, locks, nfLive>>
    /\ UNCHANGED offPath

\* A variant of UpstreamResponse that treats every failed fetch like a 404 and
\* records the key in the negative cache.
UpstreamResponseNegative(r) ==
    /\ req[r].pc = "response"
    /\ \E status \in {"transport error", "other status"} :
          Set(r, [req[r] EXCEPT !.pc = "finish", !.finErr = TRUE,
                                !.resp = "502", !.cause = status])
    /\ notFound' = notFound \cup {req[r].key}
    /\ UNCHANGED <<fileCache, totalSize, pending, sfs, path, inode,
                   fetchLocks, locks, upGets, nfLive>>
    /\ UNCHANGED offPath

\* httpClient.Do returns: a transport error, 404, another status, or 200.
\* The Content-Length of a 200 (expectedSize, -1 when absent) is held by this
\* request alone until the copy loop has ended, so the model draws it there
\* (Disposition) and not here.
UpstreamResponse(r) ==
    /\ req[r].pc = "response"
    /\ \/ \E status \in {"transport error", "other status"} :
             Set(r, [req[r] EXCEPT !.pc = "finish", !.finErr = TRUE,
                                   !.resp = "502", !.cause = status])
       \/ Set(r, [req[r] EXCEPT !.pc = "finish", !.finErr = TRUE,
                                !.resp = "404", !.cause = "upstream 404"])
       \/ Set(r, [req[r] EXCEPT !.pc = "get_or_create"])
    /\ UNCHANGED <<fileCache, notFound, totalSize, pending, sfs, path, inode,
                   fetchLocks, locks, upGets, nfLive>>
    /\ UNCHANGED offPath

\* After GetOrCreatePending: the headers carry X-Cache: MISS; a HEAD fails
\* the pending entry it created and finishes, a GET streams the body.
AfterPending(rec) ==
    IF rec.method = "HEAD"
    THEN [rec EXCEPT !.xcache = "MISS", !.resp = "200", !.finErr = FALSE,
                     !.pc = IF rec.isNew THEN "fail" ELSE "finish"]
    ELSE [rec EXCEPT !.xcache = "MISS", !.pc = "body"]

\* A variant of GetOrCreatePending that creates without looking in the map.
GetOrCreatePendingNoCheck(r) ==
    /\ req[r].pc = "get_or_create"
    /\ LET me == req[r]
           k == me.key
       IN  \/ /\ Set(r, [me EXCEPT !.pc = "finish", !.finErr = TRUE, !.resp = "500",
                                   !.cause = "create failed"])
              /\ UNCHANGED <<pending, sfs, path, inode>>
           \/ /\ LET ino == IF path[k] = None THEN r ELSE path[k]
                 IN  /\ path' = [path EXCEPT ![k] = ino]
                     /\ inode' = [inode EXCEPT ![ino] = <<>>]
                     /\ sfs' = [sfs EXCEPT ![r] = [NewSF EXCEPT !.key = k, !.ino = ino]]
              /\ pending' = [pending EXCEPT ![k] = r]
              /\ Set(r, AfterPending([me EXCEPT !.sf = r, !.isNew = TRUE,
                                                !.created = TRUE]))
    /\ UNCHANGED <<fileCache, notFound, totalSize, fetchLocks, locks, upGets, nfLive>>
    /\ UNCHANGED offPath

\* Cache.GetOrCreatePending, one region under pendingMu.  NewStreamingFile
\* calls os.Create: a linked path is truncated in place, otherwise a new
\* inode is linked.  MkdirAll or os.Create may fail.
GetOrCreatePending(r) ==
    /\ req[r].pc = "get_or_create"
    /\ LET me == req[r]
           k == me.key
       IN  \/ /\ pending[k] # None
              /\ Set(r, AfterPending([me EXCEPT !.sf = pending[k], !.isNew = FALSE]))
              /\ UNCHANGED <<pending, sfs, path, inode>>
           \/ /\ pending[k] = None
              /\ Set(r, [me EXCEPT !.pc = "finish", !.finErr = TRUE, !.resp = "500",
                                   !.cause = "create failed"])
              /\ UNCHANGED <<pending, sfs, path, inode>>
           \/ /\ pending[k] = None
              /\ LET ino == IF path[k] = None THEN r ELSE path[k]
                 IN  /\ path' = [path EXCEPT ![k] = ino]
                     /\ inode' = [inode EXCEPT ![ino] = <<>>]
                     /\ sfs' = [sfs EXCEPT ![r] = [NewSF EXCEPT !.key = k, !.ino = ino]]
              /\ pending' = [pending EXCEPT ![k] = r]
              /\ Set(r, AfterPending([me EXCEPT !.sf = r, !.isNew = TRUE,
                                                !.created = TRUE]))
    /\ UNCHANGED <<fileCache, notFound, totalSize, fetchLocks, locks, upGets, nfLive>>
    /\ UNCHANGED offPath

\* The terminal disposition after the copy loop, for a response with
\* Content-Length len: a download error or a size mismatch fails the pending
\* entry, otherwise it is completed; both only while isNew is still set.
Dispose(rec, cause, len) ==
    LET why == IF cause # "" THEN cause
               ELSE IF len >= 0 /\ rec.total # len THEN "size mismatch"
               ELSE "ok"
    IN  [rec EXCEPT !.ct = ContentTypeOf(rec.key),
                    !.resp = "200", !.cause = why, !.finErr = (why # "ok"),
                    !.pc = IF ~rec.isNew THEN "finish"
                           ELSE IF why = "ok" THEN "complete" ELSE "fail"]

Disposition(r, rec, cause) ==
    \E len \in -1..MaxBody : Set(r, Dispose(rec, cause, len))

\* A variant of SFWriteOk that writes to a done StreamingFile too.
SFWriteAlways(s, cacheOk) == cacheOk

\* StreamingFile.Write of one byte: refused when done; otherwise the byte is
\* written at the handle's offset and size grows, or the write fails.
SFWriteOk(s, cacheOk) == ~s.done /\ cacheOk

\* One iteration of the copy loop: resp.Body.Read, then sf.Write when isNew
\* (a failed write clears isNew), then w.Write to the client.
CopyLoop(r) ==
    /\ req[r].pc = "body"
    /\ LET me == req[r]
           s == sfs[me.sf]
       IN  \/ /\ me.total < MaxBody
              /\ \E cacheOk, clientOk \in BOOLEAN :
                    LET wrote == me.isNew /\ SFWriteOk(s, cacheOk)
                        rec == [me EXCEPT !.isNew = wrote,
                                          !.cacheFail = @ \/ (me.isNew /\ ~wrote)]
                    IN  /\ IF wrote
                           THEN /\ sfs' = [sfs EXCEPT ![me.sf].size = @ + 1]
                                /\ inode' = [inode EXCEPT
                                               ![s.ino] = WriteAt(@, s.size, r)]
                           ELSE UNCHANGED <<sfs, inode>>
                        /\ IF clientOk
                           THEN Set(r, [rec EXCEPT !.total = @ + 1])
                           ELSE Disposition(r, rec, "client write failed")
           \/ /\ Disposition(r, me, "")
              /\ UNCHANGED <<sfs, inode>>
           \/ /\ Disposition(r, me, "upstream read failed")
              /\ UNCHANGED <<sfs, inode>>
    /\ UNCHANGED <<fileCache, notFound, totalSize, pending, path,
                   fetchLocks, locks, upGets, nfLive>>
    /\ UNCHANGED offPath

\* Cache.FailPending, the region under pendingMu: take the key's
\* StreamingFile out of the pending map.
FailPending(r) ==
    /\ req[r].pc = "fail"
    /\ pending' = [pending EXCEPT ![req[r].key] = None]
    /\ Set(r, [req[r] EXCEPT !.opsf = pending[req[r].key],
                             !.pc = IF pending[req[r].key] # None
                                    THEN "abort" ELSE "finish"])
    /\ UNCHANGED <<fileCache, notFound, totalSize, sfs, path, inode,
                   fetchLocks, locks, upGets, nfLive>>
    /\ UNCHANGED offPath

\* StreamingFile.Abort: done, err, close, os.Remove(sf.filePath), broadcast.
SFAbort(s) == [s EXCEPT !.done = TRUE, !.err = TRUE]

Abort(r) ==
    /\ req[r].pc = "abort"
    /\ sfs' = [sfs EXCEPT ![req[r].opsf] = SFAbort(@)]
    /\ path' = [path EXCEPT ![sfs[req[r].opsf].key] = None]
    /\ Set(r, [req[r] EXCEPT !.pc = "finish"])
    /\ UNCHANGED <<fileCache, notFound, totalSize, pending, inode,
                   fetchLocks, locks, upGets, nfLive>>
    /\ UNCHANGED offPath

\* Cache.CompletePending, the region under pendingMu.
CompletePending(r) ==
    /\ req[r].pc = "complete"
    /\ pending' = [pending EXCEPT ![req[r].key] = None]
    /\ Set(r, [req[r] EXCEPT !.opsf = pending[req[r].key],
                             !.pc = IF pending[req[r].key] # None
                                    THEN "sf_complete" ELSE "finish"])
    /\ UNCHANGED <<fileCache, notFound, totalSize, sfs, path, inode,
                   fetchLocks, locks, upGets, nfLive>>
    /\ UNCHANGED offPath

\* StreamingFile.Complete: done, close, broadcast.
SFComplete(s) == [s EXCEPT !.done = TRUE]

Complete(r) ==
    /\ req[r].pc = "sf_complete"
    /\ sfs' = [sfs EXCEPT ![req[r].opsf] = SFComplete(@)]
    /\ Set(r, [req[r] EXCEPT !.pc = "evict"])
    /\ UNCHANGED <<fileCache, notFound, totalSize, pending, path, inode,
                   fetchLocks, locks, upGets, nfLive>>
    /\ UNCHANGED offPath

\* Cache.evictIfNeeded(size), one turn of its loop.
NeedsEviction(incoming) == totalSize + incoming > MaxCacheSize

EvictIfNeeded(r) ==
    /\ req[r].pc = "evict"
    /\ IF NeedsEviction(req[r].total) /\ fileCache # <<>>
       THEN /\ fileCache' = SubSeq(fileCache, 1, Len(fileCache) - 1)
            /\ EvictCallback(LruOldest(fileCache))
            /\ UNCHANGED req
       ELSE /\ Set(r, [req[r] EXCEPT !.pc = "add_entry"])
            /\ UNCHANGED <<fileCache, path, totalSize>>
    /\ UNCHANGED <<notFound, pending, sfs, inode, fetchLocks, locks, upGets, nfLive>>
    /\ UNCHANGED offPath

\* Cache.CompletePending: fileCache.Add(key, entry).
NewEntry(rec) == [key |-> rec.key, size |-> rec.total, ct |-> rec.ct]

AddEntry(r) ==
    /\ req[r].pc = "add_entry"
    /\ fileCache' = LruAdd(fileCache, NewEntry(req[r]))
    /\ Set(r, [req[r] EXCEPT !.pc = "add_size"])
    /\ UNCHANGED <<notFound, totalSize, pending, sfs, path, inode,
                   fetchLocks, locks, upGets, nfLive>>
    /\ UNCHANGED offPath

\* Cache.CompletePending: totalSize.Add(size).
AddSize(r) ==
    /\ req[r].pc = "add_size"
    /\ totalSize' = totalSize + req[r].total
    /\ Set(r, [req[r] EXCEPT !.pc = "finish"])
    /\ UNCHANGED <<fileCache, notFound, pending, sfs, path, inode,
                   fetchLocks, locks, upGets, nfLive>>
    /\ UNCHANGED offPath

\* Proxy.finishLock(lock, err).  After an upstream 404 PutNotFound follows.
FinishLock(r) ==
    /\ req[r].pc = "finish"
    /\ locks' = [locks EXCEPT ![req[r].lock] = [done |-> TRUE, err |-> req[r].finErr]]
    /\ Set(r, [req[r] EXCEPT !.pc = IF req[r].resp = "404"
                                    THEN "put_not_found" ELSE "delete_lock"])
    /\ UNCHANGED <<fileCache, notFound, totalSize, pending, sfs, path, inode,
                   fetchLocks, upGets, nfLive>>
    /\ UNCHANGED offPath

\* Cache.PutNotFound(key).
PutNotFound(r) ==
    /\ req[r].pc = "put_not_found"
    /\ notFound' = notFound \cup {req[r].key}
    /\ nfLive' = [nfLive EXCEPT ![req[r].key] = TRUE]
    /\ Set(r, [req[r] EXCEPT !.pc = "delete_lock"])
    /\ UNCHANGED <<fileCache, totalSize, pending, sfs, path, inode,
                   fetchLocks, locks, upGets>>
    /\ UNCHANGED offPath

\* The deferred fetchLocks.Delete(key) of doFetchAndServe.
DeleteLock(r) ==
    /\ req[r].pc = "delete_lock"
    /\ fetchLocks' = [fetchLocks EXCEPT ![req[r].key] = None]
    /\ Set(r, Finished(r, req[r].resp))
    /\ locks' = Collect(locks, fetchLocks', req')
    /\ UNCHANGED <<fileCache, notFound, totalSize, pending, sfs, path, inode,
                   upGets, nfLive>>
    /\ UNCHANGED offPath

\* ------------------------------------------------------------------ expiry
\* The TTL of a completed entry runs out: the LRU removes it and runs the
\* eviction callback.
ExpireEntry(k) ==
    /\ LruHas(fileCache, k)
    /\ fileCache' = LruWithout(fileCache, k)
    /\ EvictCallback(LruPeek(fileCache, k))
    /\ UNCHANGED <<notFound, pending, sfs, inode, fetchLocks, locks, req,
                   upGets, nfLive>>
    /\ UNCHANGED offPath

\* The TTL of a negative-cache entry runs out.
ExpireNotFound(k) ==
    /\ k \in notFound
    /\ notFound' = notFound \ {k}
    /\ nfLive' = [nfLive EXCEPT ![k] = FALSE]
    /\ UNCHANGED <<fileCache, totalSize, pending, sfs, path, inode,
                   fetchLocks, locks, req, upGets>>
    /\ UNCHANGED offPath

\* ----------------------------------------------------------- specification
Next ==
    \/ \E r \in Req :
          \/ ServeHTTP(r)
          \/ IsNotFound(r)
          \/ IsNotFoundRefresh(r)
          \/ GetNotFound(r)
          \/ GetNotFoundRefresh(r)
          \/ GetFile(r)
          \/ GetFileRefresh(r)
          \/ ValidateCacheFile(r)
          \/ RemoveFile(r)
          \/ RemoveNotFound(r)
          \/ ServeFromCacheOpen(r)
          \/ ServeFromCacheCopy(r)
          \/ LoadOrStoreLock(r)
          \/ CheckLock(r)
          \/ ReaderOpen(r)
          \/ ReaderRead(r)
          \/ SendUpstream(r)
          \/ UpstreamResponse(r)
          \/ GetOrCreatePending(r)
          \/ CopyLoop(r)
          \/ FailPending(r)
          \/ Abort(r)
          \/ CompletePending(r)
          \/ Complete(r)
          \/ EvictIfNeeded(r)
          \/ AddEntry(r)
          \/ AddSize(r)
          \/ FinishLock(r)
          \/ PutNotFound(r)
          \/ DeleteLock(r)
    \/ \E k \in Keys : ExpireEntry(k) \/ ExpireNotFound(k)

Spec == Init /\ [][Next]_vars

\* ------------------------------------------------------------------ claims
\* An upstream GET is in flight from httpClient.Do until the end of the copy
\* loop of the request that issued it.
InFlight(r) == req[r].pc \in {"response", "get_or_create", "body"}

FetchersOf(k) == {r \in Req : req[r].key = k /\ InFlight(r)}

\* C1: single-flight.  In every reachable state every key has at most one
\* upstream GET in flight, so that a storm of concurrent misses for one key
\* costs one upstream GET.
C1_SingleFlight == \A k \in Keys : Cardinality(FetchersOf(k)) <= 1

\* A request is in the fetch path, past GetOrCreatePending.
PastPending(r) ==
    req[r].pc \in {"body", "fail", "abort", "complete", "sf_complete", "evict",
                   "add_entry", "add_size", "finish", "delete_lock"}
    /\ req[r].xcache # ""

\* C2: a fetcher that got is_new = false from get_or_create_pending serves its
\* client as a tailing reader (X-Cache: STREAMING); only the fetcher that got
\* is_new = true answers X-Cache: MISS.
C2_OnlyCreatorAnswersMiss ==
    \A r \in Req : PastPending(r) /\ req[r].xcache = "MISS" => req[r].created

\* C3: every key is in at most one of the completed store and the pending map.
C3_CompletedPendingDisjoint ==
    \A k \in Keys : ~(LruHas(fileCache, k) /\ pending[k] # None)

\* What a lookup of k finds: get(k) an entry, get_pending(k) a StreamingFile.
InCompleted(k) == LruHas(fileCache, k)
InPending(k) == pending[k] # None

\* C4: pending -> completed and pending -> removed-with-file-unlinked are
\* atomic for lookups.  While complete_pending of a successful download has
\* taken k out of the pending map, k is in the completed store; and once
\* fail_pending has taken k out of the pending map, the aborted file is no
\* longer linked at k's path.
C4_AtomicTransitions ==
    \A r \in Req :
       /\ req[r].pc \in {"sf_complete", "evict", "add_entry"}
             => InCompleted(req[r].key) \/ InPending(req[r].key)
       /\ req[r].pc = "abort"
             => path[req[r].key] # sfs[req[r].opsf].ino \/ InPending(req[r].key)

\* No request is between the steps of CompletePending or of the TTL refresh
\* of Cache.Get.
NoCacheUpdateInProgress ==
    \A r \in Req : req[r].pc \notin {"evict", "add_entry", "add_size", "get_file_add"}

\* C5: total_size is the sum of the sizes of the completed entries.  (The
\* claim speaks of every state; it is stated here for the states in which no
\* cache update is half done, where it fails as well.)
C5_TotalSizeIsSum == NoCacheUpdateInProgress => totalSize = SumSizes(fileCache)

\* The bytes the writer of StreamingFile s appended, in order.
Appended(s) == [i \in 1..sfs[s].size |-> s]

\* A GET served by serveFromStreaming has returned, and not because the
\* write to its client failed.
TailingReader(r) ==
    /\ req[r].pc = "done" /\ req[r].xcache = "STREAMING" /\ req[r].method = "GET"
    /\ req[r].resp # "client error"

\* C6: a reader of a StreamingFile whose writer called complete reads exactly
\* the appended bytes and then EOF; a reader of a StreamingFile whose writer
\* called abort gets an error and never EOF.
C6_ReaderSeesCompleteOrAbort ==
    \A r \in Req :
       TailingReader(r) =>
          /\ sfs[req[r].sf].done /\ ~sfs[req[r].sf].err
                => req[r].resp = "200" /\ req[r].got = Appended(req[r].sf)
          /\ sfs[req[r].sf].err => req[r].resp = "read error"

\* C7: when complete_pending(k, size, content_type) of a pending k has run,
\* get(k) returns the entry with that size and content type and
\* get_pending(k) returns nothing.
C7_AfterCompletePending ==
    [][\A r \in Req :
          /\ req[r].pc = "add_entry" /\ req'[r].pc = "add_size"
                => LruPeek(fileCache', req[r].key) = NewEntry(req[r])
          /\ req[r].pc = "add_size" /\ req'[r].pc = "finish"
                => /\ req[r].key \notin notFound'
                   /\ pending'[req[r].key] = None]_vars

\* C8: the fetch that created the pending entry ends it: after a failed
\* client write or a size mismatch by fail_pending (its StreamingFile aborted,
\* the key not pending under it, no completed entry from it), after a clean
\* end of the body by complete_pending.
C8_TerminalDisposition ==
    \A r \in Req :
       req[r].pc = "finish" /\ req[r].created /\ req[r].method = "GET" =>
          /\ req[r].cause \in {"client write failed", "size mismatch"}
                => sfs[r].err /\ pending[req[r].key] # r
          /\ req[r].cause = "ok" => sfs[r].done /\ ~sfs[r].err

\* C9: a failed write to the cache file ends the population of the key by
\* fail_pending: when the fetcher is through, the key is no longer pending
\* under its StreamingFile and the StreamingFile is aborted.
C9_CacheWriteFailureFailsPending ==
    \A r \in Req :
       req[r].pc = "delete_lock" /\ req[r].cacheFail =>
          sfs[r].err /\ pending[req[r].key] # r

\* C10: a key whose upstream 404 was put in the negative cache stays there
\* until its TTL runs out, so that every request for it until then is
\* answered 404 by IsNotFound, without an upstream request.
C10_NegativeCacheHolds == \A k \in Keys : nfLive[k] => k \in notFound

\* The caches: completed store, pending map, negative cache and total_size.
Caches == <<fileCache, pending, notFound, totalSize>>

\* Request r takes a step of the upstream fetch path that ends in 502: from
\* fetchAndServe to the response of the upstream, and from a transport error
\* or a status other than 200 and 404 to the return of the handler.
FetchStep502(r) ==
    /\ req'[r] # req[r]
    /\ \/ req[r].pc \in {"load_lock", "check_lock", "send"}
       \/ req[r].pc = "response" /\ req'[r].resp = "502"
       \/ req[r].pc \in {"finish", "delete_lock"} /\ req[r].resp = "502"

\* C11: an upstream fetch that ends in a transport error or in a status other
\* than 200 and 404 answers 502 and changes no cache: no step of it changes
\* the completed store, the pending map, the negative cache or total_size.
C11_BadGatewayChangesNoCache ==
    [][\A r \in Req :
          /\ FetchStep502(r) => UNCHANGED Caches
          /\ req[r].pc = "response" /\ req'[r].pc = "finish"
             /\ req'[r].cause \in {"transport error", "other status"}
                => req'[r].resp = "502"
          /\ req[r].pc = "delete_lock" /\ req'[r].pc = "done"
             /\ req[r].cause \in {"transport error", "other status"}
                => req'[r].resp = "502"]_vars

\* A request was answered 502.
C11_Witness == \E r \in Req : req[r].pc = "done" /\ req[r].resp = "502"

NoCompletePendingInProgress ==
    \A r \in Req : req[r].pc \notin {"sf_complete", "evict", "add_entry", "add_size"}

notClock == <<notFound, pending, sfs, inode, fetchLocks, locks, upGets, nfLive,
              startVars, call>>

Expired(k) == now > deadline[k]

Tick ==
    /\ now < MaxTime
    /\ now' = now + 1
    /\ UNCHANGED <<fileCache, totalSize, path, req, deadline, notClock>>

\* A caller invokes Cache.Get(key); the negative cache is empty here, so its
\* notFoundCache.Get finds nothing.
CallGet(r) ==
    /\ req[r].pc = "idle"
    /\ \E k \in Keys : Set(r, [req[r] EXCEPT !.pc = "get_file", !.key = k])
    /\ UNCHANGED <<fileCache, totalSize, path, clockVars, notClock>>

\* Cache.Get, fileCache.Get(key): a miss returns (nil, false).
TimedGetFile(r) ==
    /\ req[r].pc = "get_file"
    /\ IF LruHas(fileCache, req[r].key) /\ ~Expired(req[r].key)
       THEN /\ fileCache' = LruTouch(fileCache, req[r].key)
            /\ Set(r, [req[r] EXCEPT !.pc = "get_file_add",
                                     !.entry = LruPeek(fileCache, req[r].key)])
       ELSE /\ fileCache' = fileCache
            /\ Set(r, NewReq)
    /\ UNCHANGED <<totalSize, path, clockVars, notClock>>

\* A variant of TimedGetFileRefresh for a Cache.Get without the refreshing Add.
TimedGetFileNoRefresh(r) ==
    /\ req[r].pc = "get_file_add"
    /\ Set(r, NewReq)
    /\ UNCHANGED <<fileCache, totalSize, path, clockVars, notClock>>

\* Cache.Get, fileCache.Add(key, entry), then return (entry, true).
TimedGetFileRefresh(r) ==
    /\ req[r].pc = "get_file_add"
    /\ fileCache' = LruAdd(fileCache, req[r].entry)
    /\ deadline' = [deadline EXCEPT ![req[r].key] = now + Ttl]
    /\ Set(r, NewReq)
    /\ UNCHANGED <<totalSize, path, now, notClock>>

\* The LRU's cleanup removes an entry whose ExpiresAt has passed.
TimedExpireEntry(k) ==
    /\ LruHas(fileCache, k) /\ Expired(k)
    /\ fileCache' = LruWithout(fileCache, k)
    /\ EvictCallback(LruPeek(fileCache, k))
    /\ UNCHANGED <<req, clockVars, notClock>>

NextTtl ==
    \/ Tick
    \/ \E r \in Req : CallGet(r) \/ TimedGetFile(r) \/ TimedGetFileRefresh(r)
    \/ \E k \in Keys : TimedExpireEntry(k)

\* The cleanup goroutine of the LRU keeps running.
SpecTtl ==
    /\ Init /\ [][NextTtl]_vars
    /\ \A k \in Keys : WF_vars(TimedExpireEntry(k))

\* C14: sliding TTL.  A get(k) that returns the entry sets its deadline to
\* now + ttl; get(k) returns the entry only while its deadline has not
\* passed; an entry leaves the store by expiry only after its deadline, with
\* its file unlinked and total_size reduced by its size; and an entry whose
\* deadline has passed is removed unless a get has refreshed it.
C14_SlidingTtl ==
    /\ [][\A r \in Req :
             LET k == req[r].key IN
             /\ req[r].pc = "get_file" /\ req'[r].pc = "get_file_add"
                   => /\ LruHas(fileCache, k) /\ now <= deadline[k]
                      /\ req'[r].entry = LruPeek(fileCache, k)
             /\ req[r].pc = "get_file_add" /\ req'[r] # req[r]
                   => LruHas(fileCache', k) /\ deadline'[k] = now + Ttl]_vars
    /\ [][\A k \in Keys :
             LruHas(fileCache, k) /\ ~LruHas(fileCache', k)
                => /\ now > deadline[k]
                   /\ path'[k] = None
                   /\ totalSize' = totalSize - LruPeek(fileCache, k).size]_vars
    /\ \A k \in Keys :
          (LruHas(fileCache, k) /\ Expired(k))
             ~> (~LruHas(fileCache, k) \/ ~Expired(k))

\* An entry that a get refreshed has expired later and is gone with its file.
C14_Witness ==
    \E k \in Keys :
       /\ deadline[k] > Ttl /\ now > deadline[k]
       /\ ~LruHas(fileCache, k) /\ path[k] = None /\ totalSize = 0

\* ------------------------------------------------------ shutdown and startup
\* A string is a sequence of bytes.  "a" and "t" stand for ASCII text, "FF"
\* and "FE" for bytes that are no valid UTF-8, "FFFD" for the encoding of the
\* replacement character U+FFFD.
InvalidBytes == {"FF", "FE"}

\* A key is the URL path of the request (ServeHTTP), percent-decoded.
KeyStrings == {<<"a">>, <<"FF">>, <<"FE">>}

ContentTypeStrings == {<<"t">>}

\* json.Marshal of a string: invalid UTF-8 is replaced by U+FFFD.
\* json.Unmarshal gives back the string that was written.
JsonString(str) ==
    [i \in 1..Len(str) |-> IF str[i] \in InvalidBytes THEN "FFFD" ELSE str[i]]

\* Cache.filePath: <root>/<hh>/<hex sha256 of the key>, a name of its own for
\* every key, in ASCII.
FilePathOf(key) == <<"sha256">> \o [i \in 1..Len(key) |-> "hex" \o key[i]]

IndexFile == <<"index.json">>
TmpIndexFile == <<"index.json.tmp">>

\* The entry CompletePending makes for a key.
StoredEntry(key, size, ct) ==
    [key |-> key, filePath |-> FilePathOf(key), size |-> size, ct |-> ct]

\* The index entry written for a CacheEntry and read back.
JsonEntry(e) ==
    [key |-> JsonString(e.key), filePath |-> JsonString(e.filePath),
     size |-> e.size, ct |-> JsonString(e.ct)]

Unlink(d, f) == [g \in (DOMAIN d) \ {f} |-> d[g]]

WriteFile(d, f, size) == [g \in (DOMAIN d) \cup {f} |-> IF g = f THEN size ELSE d[g]]

\* The completed stores the cache may hold: entries of different keys, each
\* with its file on disk.
StoredEntries ==
    {StoredEntry(k, n, ct) : k \in KeyStrings, n \in 0..MaxBody, ct \in ContentTypeStrings}

Stores ==
    UNION {{st \in [1..n -> StoredEntries] :
              \A i, j \in 1..n : i # j => st[i].key # st[j].key} : n \in 0..MaxStored}

RECURSIVE FilesOf(_)
FilesOf(st) ==
    IF st = <<>> THEN <<>>
    ELSE WriteFile(FilesOf(Tail(st)), Head(st).filePath, Head(st).size)

startIdle == <<notFound, pending, sfs, path, inode, fetchLocks, locks, req,
               upGets, nfLive, clockVars, call>>

\* A running cache after some downloads: the completed entries with their
\* files, no index yet.
InitStart ==
    /\ \E st \in Stores :
          /\ fileCache = st
          /\ totalSize = SumSizes(st)
          /\ disk = FilesOf(st)
    /\ phase = "running"
    /\ index = <<>>
    /\ saved = <<>>
    /\ notFound = {}
    /\ pending = [k \in Keys |-> None]
    /\ sfs = [r \in Req |-> NewSF]
    /\ path = [k \in Keys |-> None]
    /\ inode = [i \in Inodes |-> <<>>]
    /\ fetchLocks = [k \in Keys |-> None]
    /\ locks = [r \in Req |-> NewLock]
    /\ req = [r \in Req |-> NewReq]
    /\ upGets = [k \in Keys |-> 0]
    /\ nfLive = [k \in Keys |-> FALSE]
    /\ now = 0
    /\ deadline = [k \in Keys |-> 0]
    /\ call = NoCall

Reverse(sq) == [i \in 1..Len(sq) |-> sq[Len(sq) + 1 - i]]

Range(sq) == {sq[i] : i \in 1..Len(sq)}

\* Cache.saveIndex: the entries in the order of fileCache.Keys(), oldest
\* first, marshalled, written to index.json.tmp and renamed to index.json.
SaveIndex ==
    /\ phase = "running"
    /\ index' = [i \in 1..Len(fileCache) |-> JsonEntry(Reverse(fileCache)[i])]
    /\ disk' = WriteFile(disk, IndexFile, 0)
    /\ saved' = fileCache
    /\ UNCHANGED <<fileCache, totalSize, phase, startIdle>>

\* An entry leaves the running cache (TTL, size eviction or Remove): the
\* eviction callback unlinks its file and subtracts its size.
EntryEvicted ==
    /\ phase = "running"
    /\ \E i \in 1..Len(fileCache) :
          /\ fileCache' = LruWithout(fileCache, fileCache[i].key)
          /\ disk' = Unlink(disk, fileCache[i].filePath)
          /\ totalSize' = totalSize - fileCache[i].size
    /\ UNCHANGED <<phase, index, saved, startIdle>>

\* A download is under way: GetOrCreatePending has created or truncated the
\* key's file and the copy loop has written size bytes to it.
DownloadStarted ==
    /\ phase = "running"
    /\ \E key \in KeyStrings, size \in 0..MaxBody :
          disk' = WriteFile(disk, FilePathOf(key), size)
    /\ UNCHANGED <<fileCache, totalSize, phase, index, saved, startIdle>>

\* The process ends, by Close or killed; killed inside saveIndex it leaves
\* index.json.tmp behind.  The next process starts with an empty Cache.
ProcessEnds ==
    /\ phase = "running"
    /\ phase' = "down"
    /\ fileCache' = <<>>
    /\ totalSize' = 0
    /\ \E tmpLeft \in BOOLEAN :
          disk' = IF tmpLeft THEN WriteFile(disk, TmpIndexFile, 0) ELSE disk
    /\ UNCHANGED <<index, saved, startIdle>>

\* os.Stat(entry.FilePath) gives the recorded size.
Intact(e, d) == e.filePath \in DOMAIN d /\ d[e.filePath] = e.size

\* Cache.loadAndCleanup, the loop over idx.Entries; st is the cache, the
\* validFiles map and the directory so far.
RECURSIVE LoadEntries(_, _)
LoadEntries(idx, st) ==
    IF idx = <<>> THEN st
    ELSE LET e == Head(idx)
         IN  LoadEntries(Tail(idx),
                IF Intact(e, st.disk)
                THEN [st EXCEPT !.lru = LruAdd(@, e), !.total = @ + e.size,
                                !.valid = @ \cup {e.filePath}]
                ELSE [st EXCEPT !.disk = Unlink(@, e.filePath)])

\* Cache.cleanupOrphanFiles: every file that is neither an index file nor in
\* validFiles is removed.
CleanupOrphanFiles(valid, d) ==
    [f \in {g \in DOMAIN d : g \in {IndexFile, TmpIndexFile} \/ g \in valid} |-> d[f]]

\* NewCache: loadAndCleanup reads index.json when it is there.
LoadAndCleanup ==
    /\ phase = "down"
    /\ phase' = "loaded"
    /\ LET idx == IF IndexFile \in DOMAIN disk THEN index ELSE <<>>
           st == LoadEntries(idx, [lru |-> <<>>, total |-> 0, valid |-> {},
                                   disk |-> disk])
       IN  /\ fileCache' = st.lru
           /\ totalSize' = st.total
           /\ disk' = CleanupOrphanFiles(st.valid, st.disk)
    /\ UNCHANGED <<index, saved, startIdle>>

NextStart ==
    \/ SaveIndex
    \/ EntryEvicted
    \/ DownloadStarted
    \/ ProcessEnds
    \/ LoadAndCleanup

SpecStart == InitStart /\ [][NextStart]_vars

\* C15: index round trip.  After save, restart and load the completed store
\* holds exactly the saved entries whose file is there with the recorded
\* size, each as it was saved; the file of every other saved entry is
\* unlinked; and total_size is the sum of the sizes of the installed entries.
C15_IndexRoundTrip ==
    [][phase = "down" /\ phase' = "loaded"
          => /\ Range(fileCache') = {e \in Range(saved) : Intact(e, disk)}
             /\ \A e \in Range(saved) :
                   ~Intact(e, disk) => e.filePath \notin DOMAIN disk'
             /\ totalSize' = SumSizes(fileCache')]_vars

\* C16: orphan cleanup.  When startup is over every file under the cache root
\* is index.json, index.json.tmp or the backing file of an installed entry,
\* and the backing file of every installed entry is still there.
C16_OrphanCleanup ==
    phase = "loaded" =>
       /\ \A f \in DOMAIN disk :
             \/ f \in {IndexFile, TmpIndexFile}
             \/ \E e \in Range(fileCache) : e.filePath = f
       /\ \A e \in Range(fileCache) : e.filePath \in DOMAIN disk

\* ------------------------------------------------ Range on completed entries
\* A header is a sequence of characters.
DigitChars == <<"0", "1", "2", "3", "4", "5", "6", "7", "8", "9">>

IsDigit(c) == \E d \in 1..Len(DigitChars) : DigitChars[d] = c

DigitValue(c) == (CHOOSE d \in 1..Len(DigitChars) : DigitChars[d] = c) - 1

\* strconv.FormatInt(n, 10) of a number that is not negative.
RECURSIVE FormatInt(_)
FormatInt(n) ==
    IF n < Len(DigitChars) THEN <<DigitChars[n + 1]>>
    ELSE FormatInt(n \div Len(DigitChars)) \o <<DigitChars[(n % Len(DigitChars)) + 1]>>

RECURSIVE ParseDigits(_, _)
ParseDigits(str, acc) ==
    IF str = <<>> THEN acc
    ELSE ParseDigits(Tail(str), Len(DigitChars) * acc + DigitValue(Head(str)))

\* strconv.ParseInt(str, 10, 64): an optional sign, then one digit or more.
ParseInt(str) ==
    LET signed == str # <<>> /\ Head(str) \in {"+", "-"}
        digits == IF signed THEN Tail(str) ELSE str
    IN  IF digits = <<>> \/ \E i \in 1..Len(digits) : ~IsDigit(digits[i])
        THEN [ok |-> FALSE, val |-> 0]
        ELSE [ok |-> TRUE,
              val |-> IF signed /\ Head(str) = "-"
                      THEN 0 - ParseDigits(digits, 0) ELSE ParseDigits(digits, 0)]

HasPrefix(str, pre) == Len(str) >= Len(pre) /\ SubSeq(str, 1, Len(pre)) = pre

TrimPrefix(str, pre) ==
    IF HasPrefix(str, pre) THEN SubSeq(str, Len(pre) + 1, Len(str)) ELSE str

\* strings.Split(str, sep) for a separator of one character.
RECURSIVE Split(_, _)
Split(str, sep) ==
    IF \A i \in 1..Len(str) : str[i] # sep THEN <<str>>
    ELSE LET i == CHOOSE j \in 1..Len(str) :
                     str[j] = sep /\ \A h \in 1..(j - 1) : str[h] # sep
         IN  <<SubSeq(str, 1, i - 1)>> \o Split(SubSeq(str, i + 1, Len(str)), sep)

BytesPrefix == <<"b", "y", "t", "e", "s", "=">>

Rejected == [start |-> 0, end |-> 0, ok |-> FALSE]

\* A variant of CheckRange that leaves end as the header gave it.
CheckRangeNoClamp(start, end, size) ==
    IF start > end \/ start >= size THEN Rejected
    ELSE [start |-> start, end |-> end, ok |-> TRUE]

\* parseRange, after the header is split and its numbers are parsed.
CheckRange(start, end, size) ==
    IF start > end \/ start >= size THEN Rejected
    ELSE [start |-> start,
          end |-> IF end >= size THEN size - 1 ELSE end,
          ok |-> TRUE]

parseRange(rangeHeader, size) ==
    IF ~HasPrefix(rangeHeader, BytesPrefix) THEN Rejected
    ELSE LET parts == Split(TrimPrefix(rangeHeader, BytesPrefix), "-")
         IN  IF Len(parts) # 2 THEN Rejected
             ELSE IF parts[1] = <<>>
             THEN LET n == ParseInt(parts[2])
                  IN  IF ~n.ok THEN Rejected
                      ELSE CheckRange(IF size - n.val < 0 THEN 0
                                      ELSE size - n.val,
                                      size - 1, size)
             ELSE LET a == ParseInt(parts[1])
                      b == ParseInt(parts[2])
                  IN  IF ~a.ok THEN Rejected
                      ELSE IF parts[2] = <<>>
                      THEN CheckRange(a.val, size - 1, size)
                      ELSE IF ~b.ok THEN Rejected
                      ELSE CheckRange(a.val, b.val, size)

\* The forms of Range header a client sends: the three of RFC 7233 and
\* malformed ones.
RangeForms == {"A-B", "A-", "-N"}

MalformedForms ==
    {"wrong unit", "no unit", "no dash", "two ranges", "start not a number",
     "end not a number", "space", "empty", "dash only"}

Nums == 0..MaxNum

Sizes == 0..MaxSize

RangeHeader(form, a, b, n) ==
    CASE form = "A-B" -> BytesPrefix \o FormatInt(a) \o <<"-">> \o FormatInt(b)
      [] form = "A-" -> BytesPrefix \o FormatInt(a) \o <<"-">>
      [] form = "-N" -> BytesPrefix \o <<"-">> \o FormatInt(n)
      [] form = "wrong unit" ->
            <<"b", "i", "t", "s", "=">> \o FormatInt(a) \o <<"-">> \o FormatInt(b)
      [] form = "no unit" -> FormatInt(a) \o <<"-">> \o FormatInt(b)
      [] form = "no dash" -> BytesPrefix \o FormatInt(a)
      [] form = "two ranges" ->
            BytesPrefix \o FormatInt(a) \o <<"-">> \o FormatInt(b)
                \o <<",">> \o FormatInt(a) \o <<"-">> \o FormatInt(b)
      [] form = "start not a number" ->
            BytesPrefix \o <<"x">> \o <<"-">> \o FormatInt(b)
      [] form = "end not a number" ->
            BytesPrefix \o FormatInt(a) \o <<"-">> \o <<"x">>
      [] form = "space" ->
            BytesPrefix \o FormatInt(a) \o <<" ", "-", " ">> \o FormatInt(b)
      [] form = "empty" -> BytesPrefix
      [] form = "dash only" -> BytesPrefix \o <<"-">>

RangeCall(form, a, b, n, size) ==
    [pc |-> "request", form |-> form, a |-> a, b |-> b, n |-> n, size |-> size,
     header |-> RangeHeader(form, a, b, n)]

RangeCalls ==
    {RangeCall(form, a, b, 0, size) :
        form \in {"A-B", "wrong unit", "no unit", "two ranges", "space"},
        a \in Nums, b \in Nums, size \in Sizes}
    \cup {RangeCall(form, a, 0, 0, size) :
        form \in {"A-", "no dash", "end not a number"}, a \in Nums, size \in Sizes}
    \cup {RangeCall("start not a number", 0, b, 0, size) : b \in Nums, size \in Sizes}
    \cup {RangeCall("-N", 0, 0, n, size) : n \in Nums, size \in Sizes}
    \cup {RangeCall(form, 0, 0, 0, size) :
        form \in {"empty", "dash only"}, size \in Sizes}

\* A GET with a Range header for a completed entry of call.size bytes.
InitRange ==
    /\ call \in RangeCalls
    /\ fileCache = <<>>
    /\ notFound = {}
    /\ totalSize = 0
    /\ pending = [k \in Keys |-> None]
    /\ sfs = <<>>
    /\ path = [k \in Keys |-> None]
    /\ inode = <<>>
    /\ fetchLocks = [k \in Keys |-> None]
    /\ locks = <<>>
    /\ req = [r \in Req |-> NewReq]
    /\ upGets = [k \in Keys |-> 0]
    /\ nfLive = [k \in Keys |-> FALSE]
    /\ now = 0
    /\ deadline = [k \in Keys |-> 0]
    /\ phase = "running"
    /\ disk = <<>>
    /\ index = <<>>
    /\ saved = <<>>

rangeIdle ==
    <<fileCache, notFound, totalSize, pending, sfs, path, inode, fetchLocks,
      locks, req, upGets, nfLive, clockVars, startVars>>

ServeRangeFromFile ==
    /\ call.pc = "request"
    /\ LET range == parseRange(call.header, call.size)
       IN  call' = IF range.ok
                   THEN [call EXCEPT !.pc = "served"]
                            @@ [status |-> "206", start |-> range.start,
                                end |-> range.end,
                                length |-> range.end - range.start + 1]
                   ELSE [call EXCEPT !.pc = "served"]
                            @@ [status |-> "416", start |-> 0, end |-> 0,
                                length |-> 0]
    /\ UNCHANGED rangeIdle

NextRange == ServeRangeFromFile

SpecRange == InitRange /\ [][NextRange]_vars

\* What the three forms ask for, before the bounds are checked.
AskedStart ==
    CASE call.form = "A-B" -> call.a
      [] call.form = "A-" -> call.a
      [] call.form = "-N" -> IF call.size - call.n > 0 THEN call.size - call.n ELSE 0

AskedEnd ==
    CASE call.form = "A-B" -> call.b
      [] call.form = "A-" -> call.size - 1
      [] call.form = "-N" -> call.size - 1

RangeRejected ==
    \/ call.form \in MalformedForms
    \/ AskedStart > AskedEnd
    \/ AskedStart >= call.size

HeadCreator(r) == req[r].method = "HEAD" /\ req[r].created

\* The stages of CompletePending, where a completed entry is inserted.
Completing == {"complete", "sf_complete", "evict", "add_entry", "add_size"}

\* C18: a HEAD that created the pending entry of key k fails it and answers
\* with headers only: when it finishes, k is not in the pending map, the file
\* it created is unlinked, its response is 200 without a body, and it never
\* enters CompletePending.
C18_HeadFailsPending ==
    /\ [][\A r \in Req :
            HeadCreator(r) /\ req[r].pc # "done" /\ req'[r].pc = "done" =>
                /\ pending'[req[r].key] = None
                /\ path'[req[r].key] # sfs[r].ino
                /\ req'[r].resp = "200"
                /\ req'[r].got = <<>>]_vars
    /\ [](\A r \in Req : req[r].method = "HEAD" => req[r].pc \notin Completing)

\* ------------------------------------------------ GetOrCreatePending
\* Request r returns from GetOrCreatePending in this step.
GetOrCreateReturns(r) ==
    req[r].pc = "get_or_create" /\ req'[r].pc # "get_or_create"

\* C19: GetOrCreatePending is one check-and-insert.  A call that finds the
\* key in the pending map returns that StreamingFile with isNew = false and
\* leaves the map alone; a call that does not find it either fails, leaving
\* the map alone, or inserts a fresh StreamingFile and returns it with
\* isNew = true.  So of the requests that hold the StreamingFile now in the
\* map, at most one created it.
C19_GetOrCreatePendingAtomic ==
    /\ [][\A r \in Req : GetOrCreateReturns(r) =>
            LET k == req[r].key
            IN  /\ \A j \in Keys \ {k} : pending'[j] = pending[j]
                /\ IF req'[r].cause = "create failed"
                   THEN /\ pending[k] = None
                        /\ pending' = pending
                        /\ req'[r].resp = "500"
                        /\ req'[r].sf = None
                   ELSE /\ req'[r].sf # None
                        /\ req'[r].sf = pending'[k]
                        /\ req'[r].isNew <=> pending[k] = None
                        /\ pending[k] # None => pending'[k] = pending[k]
                        /\ pending[k] = None =>
                               sfs'[pending'[k]] =
                                   [NewSF EXCEPT !.key = k, !.ino = path'[k]]
                        /\ \A q \in Req \ {r} :
                               req[q].sf # None /\ req[q].sf = pending[k] =>
                                   req'[r].sf = req[q].sf /\ ~req'[r].isNew]_vars
    /\ [](\A k \in Keys : pending[k] # None =>
             Cardinality({r \in Req : req[r].created /\ req[r].sf = pending[k]}) <= 1)

\* Two calls for one key with no CompletePending or FailPending in between:
\* both hold the StreamingFile in the map, one with isNew, one without.
C19_Witness ==
    \E r, q \in Req :
        /\ r # q
        /\ req[r].key = req[q].key
        /\ req[r].sf # None
        /\ req[r].sf = pending[req[r].key]
        /\ req[q].sf = req[r].sf
        /\ req[r].isNew
        /\ ~req[q].isNew
        /\ req[q].pc = "body"

\* ------------------------------------------------ Shutdown
\* Server.Shutdown: httpServer.Shutdown returns when no handler is left or
\* after its 30 seconds, whichever comes first, so handlers may be at any
\* point; then Proxy.Close calls Cache.Close: closeCh is closed, saveLoop
\* returns, and saveIndex writes the completed entries, oldest first.
\* Nothing else is done, and then the process ends.
Shutdown ==
    /\ phase = "running"
    /\ phase' = "closed"
    /\ index' = Reverse(fileCache)
    /\ saved' = fileCache
    /\ disk' = WriteFile(disk, IndexFile, 0)
    /\ UNCHANGED <<fileCache, notFound, totalSize, pending, sfs, path, inode,
                   fetchLocks, locks, req, upGets, nfLive, clockVars, call>>

NextClose ==
    \/ \E r \in Req :
          \/ phase = "running" /\ ServeHTTP(r)
          \/ phase = "running" /\ IsNotFound(r)
          \/ phase = "running" /\ IsNotFoundRefresh(r)
          \/ phase = "running" /\ GetNotFound(r)
          \/ phase = "running" /\ GetNotFoundRefresh(r)
          \/ phase = "running" /\ GetFile(r)
          \/ phase = "running" /\ GetFileRefresh(r)
          \/ phase = "running" /\ ValidateCacheFile(r)
          \/ phase = "running" /\ RemoveFile(r)
          \/ phase = "running" /\ RemoveNotFound(r)
          \/ phase = "running" /\ ServeFromCacheOpen(r)
          \/ phase = "running" /\ ServeFromCacheCopy(r)
          \/ phase = "running" /\ LoadOrStoreLock(r)
          \/ phase = "running" /\ CheckLock(r)
          \/ phase = "running" /\ ReaderOpen(r)
          \/ phase = "running" /\ ReaderRead(r)
          \/ phase = "running" /\ SendUpstream(r)
          \/ phase = "running" /\ UpstreamResponse(r)
          \/ phase = "running" /\ GetOrCreatePending(r)
          \/ phase = "running" /\ CopyLoop(r)
          \/ phase = "running" /\ FailPending(r)
          \/ phase = "running" /\ Abort(r)
          \/ phase = "running" /\ CompletePending(r)
          \/ phase = "running" /\ Complete(r)
          \/ phase = "running" /\ EvictIfNeeded(r)
          \/ phase = "running" /\ AddEntry(r)
          \/ phase = "running" /\ AddSize(r)
          \/ phase = "running" /\ FinishLock(r)
          \/ phase = "running" /\ PutNotFound(r)
          \/ phase = "running" /\ DeleteLock(r)
    \/ \E k \in Keys :
          \/ phase = "running" /\ ExpireEntry(k)
          \/ phase = "running" /\ ExpireNotFound(k)
    \/ Shutdown

SpecClose == Init /\ [][NextClose]_vars

\* Request r waits in StreamingFileReader.Read for more bytes.
ReaderBlocked(r) ==
    /\ req[r].pc = "read"
    /\ ~sfs[req[r].sf].err
    /\ ~sfs[req[r].sf].done
    /\ sfs[req[r].sf].size <= req[r].off

\* C20: after Close has returned the index is written, every StreamingFile
\* still in the pending map is done, and no reader waits for more bytes.
C20_CloseEndsPending ==
    phase = "closed" =>
        /\ index = Reverse(fileCache)
        /\ \A k \in Keys : pending[k] # None => sfs[pending[k]].done
        /\ \A r \in Req : ~ReaderBlocked(r)

\* ------------------------------------------------ StreamingFile
\* The StreamingFile objects alone, under any order of NewStreamingFile,
\* Write, Complete and Abort; call holds the last call and what it returned.
sfIdle ==
    <<fileCache, notFound, totalSize, pending, fetchLocks, locks, req,
      upGets, nfLive, clockVars, startVars>>

SFCall(seq, op, s, n, ok) ==
    [pc |-> "sf", seq |-> seq, op |-> op, sf |-> s, n |-> n, ok |-> ok]

InitSF ==
    /\ call = SFCall(0, "none", None, 0, TRUE)
    /\ fileCache = <<>>
    /\ notFound = {}
    /\ totalSize = 0
    /\ pending = [k \in Keys |-> None]
    /\ sfs = [r \in Req |-> NewSF]
    /\ path = [k \in Keys |-> None]
    /\ inode = [i \in Inodes |-> <<>>]
    /\ fetchLocks = [k \in Keys |-> None]
    /\ locks = [r \in Req |-> NewLock]
    /\ req = [r \in Req |-> NewReq]
    /\ upGets = [k \in Keys |-> 0]
    /\ nfLive = [k \in Keys |-> FALSE]
    /\ now = 0
    /\ deadline = [k \in Keys |-> 0]
    /\ phase = "running"
    /\ disk = <<>>
    /\ index = <<>>
    /\ saved = <<>>

\* NewStreamingFile(filePath(k)): os.Create truncates the file linked at the
\* path or links a new one; the new object has size 0 and is not done.
NewStreamingFile(s, k) ==
    /\ sfs[s].key = None
    /\ LET ino == IF path[k] = None THEN s ELSE path[k]
       IN  /\ path' = [path EXCEPT ![k] = ino]
           /\ inode' = [inode EXCEPT ![ino] = <<>>]
           /\ sfs' = [sfs EXCEPT ![s] = [NewSF EXCEPT !.key = k, !.ino = ino]]
    /\ call' = SFCall(1 - call.seq, "New", s, 0, TRUE)
    /\ UNCHANGED sfIdle

\* StreamingFile.Write of one byte.
WriteCall(s) ==
    /\ sfs[s].key # None
    /\ sfs[s].size < MaxBody
    /\ \E cacheOk \in BOOLEAN :
          IF SFWriteOk(sfs[s], cacheOk)
          THEN /\ sfs' = [sfs EXCEPT ![s].size = @ + 1]
               /\ inode' = [inode EXCEPT ![sfs[s].ino] = WriteAt(@, sfs[s].size, s)]
               /\ call' = SFCall(1 - call.seq, "Write", s, 1, TRUE)
          ELSE /\ UNCHANGED <<sfs, inode>>
               /\ call' = SFCall(1 - call.seq, "Write", s, 0, FALSE)
    /\ UNCHANGED <<path, sfIdle>>

\* StreamingFile.Complete.
CompleteCall(s) ==
    /\ sfs[s].key # None
    /\ sfs' = [sfs EXCEPT ![s] = SFComplete(@)]
    /\ call' = SFCall(1 - call.seq, "Complete", s, 0, TRUE)
    /\ UNCHANGED <<path, inode, sfIdle>>

\* StreamingFile.Abort.
AbortCall(s) ==
    /\ sfs[s].key # None
    /\ sfs' = [sfs EXCEPT ![s] = SFAbort(@)]
    /\ path' = [path EXCEPT ![sfs[s].key] = None]
    /\ call' = SFCall(1 - call.seq, "Abort", s, 0, TRUE)
    /\ UNCHANGED <<inode, sfIdle>>

NextSF ==
    \E s \in Req :
        \/ \E k \in Keys : NewStreamingFile(s, k)
        \/ WriteCall(s)
        \/ CompleteCall(s)
        \/ AbortCall(s)

SpecSF == InitSF /\ [][NextSF]_vars

\* C21: the size of a StreamingFile never decreases; once it is done its
\* size never changes and it stays done, and a Write on it returns an error
\* and appends nothing; Abort unlinks the path; err implies done, and the
\* file the StreamingFile wrote to is no longer linked.
C21_StreamingFileInvariant ==
    /\ [][\A s \in Req :
            /\ sfs'[s].size >= sfs[s].size
            /\ sfs[s].done => sfs'[s].done /\ sfs'[s].size = sfs[s].size
            /\ sfs[s].done /\ call'.seq # call.seq
                   /\ call'.op = "Write" /\ call'.sf = s =>
                   ~call'.ok /\ call'.n = 0 /\ inode' = inode
            /\ ~sfs[s].err /\ sfs'[s].err => path'[sfs[s].key] = None]_vars
    /\ [](\A s \in Req : sfs[s].err =>
             sfs[s].done /\ path[sfs[s].key] # sfs[s].ino)

\* A Write on an aborted StreamingFile that holds a byte has returned.
C21_Witness ==
    /\ call.pc = "sf"
    /\ call.op = "Write"
    /\ ~call.ok
    /\ sfs[call.sf].err
    /\ sfs[call.sf].size > 0

\* ------------------------------------------------ files of completed entries
\* C22: while key k stays in the completed store, its file, once there with
\* the size of the entry, keeps its contents, and a GET served from the cache
\* receives exactly entry.size bytes.
C22_CompletedFileUntouched ==
    /\ [][\A k \in Keys :
            LruHas(fileCache, k) /\ LruHas(fileCache', k)
                /\ FileValid(LruPeek(fileCache, k)) =>
                inode'[path[k]] = inode[path[k]]]_vars
    /\ [][\A r \in Req :
            req[r].pc = "copy_cache" /\ req'[r].pc = "done"
                /\ req[r].method = "GET" =>
                Len(req'[r].got) = req[r].entry.size]_vars

\* ------------------------------------------------ progress of downloads
\* The steps of the handler of request r after its arrival.  Each handler is
\* a goroutine of its own: the scheduler runs it whenever it can take a step,
\* and every upstream read and client write returns.
Handler(r) ==
    \/ IsNotFound(r)
    \/ IsNotFoundRefresh(r)
    \/ GetNotFound(r)
    \/ GetNotFoundRefresh(r)
    \/ GetFile(r)
    \/ GetFileRefresh(r)
    \/ ValidateCacheFile(r)
    \/ RemoveFile(r)
    \/ RemoveNotFound(r)
    \/ ServeFromCacheOpen(r)
    \/ ServeFromCacheCopy(r)
    \/ LoadOrStoreLock(r)
    \/ CheckLock(r)
    \/ ReaderOpen(r)
    \/ ReaderRead(r)
    \/ SendUpstream(r)
    \/ UpstreamResponse(r)
    \/ GetOrCreatePending(r)
    \/ CopyLoop(r)
    \/ FailPending(r)
    \/ Abort(r)
    \/ CompletePending(r)
    \/ Complete(r)
    \/ EvictIfNeeded(r)
    \/ AddEntry(r)
    \/ AddSize(r)
    \/ FinishLock(r)
    \/ PutNotFound(r)
    \/ DeleteLock(r)

SpecLive == Init /\ [][Next]_vars /\ \A r \in Req : WF_vars(Handler(r))

\* C23: every StreamingFile put in the pending map is eventually done and
\* out of the map, and every reader waiting for more bytes eventually stops
\* waiting.
C23_PendingEnds ==
    /\ \A s \in Req :
          (\E k \in Keys : pending[k] = s)
              ~> (sfs[s].done /\ \A k \in Keys : pending[k] # s)
    /\ \A r \in Req : ReaderBlocked(r) ~> ~ReaderBlocked(r)

\* ------------------------------------------------ files of pending downloads
\* C24: while a StreamingFile is in the pending map and not done, the file
\* linked at its cache path is the file its writer appends to, and its
\* length is the size of the StreamingFile.
C24_PendingFileIntact ==
    \A k \in Keys :
        pending[k] # None /\ ~sfs[pending[k]].done =>
            /\ path[k] # None
            /\ path[k] = sfs[pending[k]].ino
            /\ Len(inode[path[k]]) = sfs[pending[k]].size

\* ------------------------------------------------ 404 answers
\* The upstream has answered 404 for key k: to request r itself in this
\* step, to a fetch whose negative entry has not run out since, or to a
\* concurrent fetch that has not returned yet.
UpstreamSaid404(r, k) ==
    \/ req'[r].cause = "upstream 404"
    \/ nfLive[k]
    \/ \E q \in Req \ {r} : req[q].key = k /\ req[q].cause = "upstream 404"

\* C25: a request is answered 404 only when the upstream has answered 404
\* for its key.
C25_NotFoundOnlyFromUpstream ==
    [][\A r \in Req :
          req[r].resp # "404" /\ req'[r].resp = "404" =>
              UpstreamSaid404(r, req'[r].key)]_vars

\* ------------------------------------------------ a finished fetch lock
\* C26: when a request finds its fetch lock done without an error, the key
\* has a completed entry whose file is there with the entry's size, and the
\* request, served by serveFromCacheOrError, is answered 200 with
\* X-Cache: HIT.
C26_FinishedLockMeansHit ==
    [][\A r \in Req :
          /\ req[r].pc = "check_lock" /\ req'[r].ctx = "after" =>
                 /\ LruHas(fileCache, req[r].key)
                 /\ FileValid(LruPeek(fileCache, req[r].key))
          /\ req[r].ctx = "after" /\ req[r].pc # "done" /\ req'[r].pc = "done" =>
                 req'[r].resp = "200" /\ req'[r].xcache = "HIT"]_vars

====
